---- MODULE Spec2Model ----
(***************************************************************************)
(* raw-brass: a windowing and drawing abstraction with two windowing       *)
(* backends (winit, XCB), an application driver (App) and the XCB property *)
(* marshalling layer.                                                      *)
(*                                                                         *)
(* Floating point coordinates and sizes are modelled by integers; native   *)
(* events are records carrying the fields the translation code reads.      *)
(***************************************************************************)
EXTENDS Integers, Sequences, FiniteSets, TLC

VARIABLES
    backend,      \* "winit" | "xcb": the W of App<W, D>
    window,       \* the window handle and what was requested of the native system
    native,       \* native events pending in the events loop / on the connection
    arrived,      \* number of native events that have arrived so far
    cursor,       \* WinitWindow.last_cursor_position
    evt_buf,      \* App.evt_buf
    pc,           \* position inside App::poll_events: "idle" | "dispatch"
    surface,      \* size of the drawing surface
    frame_dims,   \* App.frame_dims
    drained,      \* history: every native event drained, with its translation
    delivered,    \* history: every callback invocation, with what it could observe
    lastDrain,    \* history: the last get_window_events call
    aborted,      \* the process panicked
    propStore,    \* X server: the property of one window under one property atom
    propWritten,  \* history: the set_property call the stored property comes from
    propLast,     \* history: the last property operation and its result
    draw,         \* CairoBackend: the cairo context and the pixels of the surface
    drawLast      \* history: the last drawing call, with the context around it

vars == <<backend, window, native, arrived, cursor, evt_buf, pc, surface,
          frame_dims, drained, delivered, lastDrain, aborted, propStore, propWritten,
          propLast, draw, drawLast>>

propVars == <<propStore, propWritten, propLast>>

drawVars == <<draw, drawLast>>

evVars == <<native, arrived, cursor, evt_buf, pc, surface, frame_dims,
            drained, delivered, lastDrain, aborted>>

----------------------------------------------------------------------------
(* Bounds *)

\* native events that arrive during one run
MaxNative == 3

----------------------------------------------------------------------------
(* Integer casts *)

Pow2(n) == 2 ^ n

\* `as u16`, `as u32` on an integer: wrap modulo 2^w
AsUnsigned(v, w) == v % Pow2(w)

\* `as i16` on an integer: wrap into the signed range
AsSigned(v, w) == ((v + Pow2(w - 1)) % Pow2(w)) - Pow2(w - 1)

I32Max == 2147483647

\* `f64 as i32`: saturating (fractions do not occur in the model)
F64AsI32(v) ==
    IF v > I32Max THEN I32Max
    ELSE IF v < -I32Max - 1 THEN -I32Max - 1
    ELSE v

----------------------------------------------------------------------------
(* Event model *)

NoEvent == [type |-> "None"]

MouseButtons == {"Left", "Right", "Middle"}

\* winit::dpi::Logical{Size,Position}::to_physical(dpi_factor)
to_physical(p, factor) == <<p[1] * factor, p[2] * factor>>

\* the dpi factor the winit backend passes to every conversion
DpiFactor == 1

----------------------------------------------------------------------------
(* Window creation *)

\* WindowBuilder::new() with no dimensions or position set
DefaultGeom == [default |-> TRUE]

\* WinitWindow.last_cursor_position as create_window sets it
InitialCursor == <<0, 0>>

\* WinitBackend::create_window: the builder is given the title only
winit_create_window(dims, native_size) ==
    [ok |-> TRUE,
     win |-> [state |-> "open", asked |-> dims, geom |-> DefaultGeom,
              visible |-> TRUE, size |-> native_size, moved |-> <<>>]]

\* the geometry XcbBackend::create_window passes to xcb::create_window_checked
xcb_create_geometry(dims) ==
    [x |-> AsSigned(dims.x, 16), y |-> AsSigned(dims.y, 16),
     width |-> AsUnsigned(dims.width, 16), height |-> AsUnsigned(dims.height, 16)]

\* XcbBackend::create_window (inherent) followed by map_window; the X server
\* refuses a window of zero width or height and request_check reports it
xcb_create_window(dims) ==
    LET g == xcb_create_geometry(dims) IN
    IF g.width = 0 \/ g.height = 0
    THEN [ok |-> FALSE, win |-> [state |-> "failed", asked |-> dims]]
    ELSE [ok |-> TRUE,
          win |-> [state |-> "open", asked |-> dims, geom |-> g,
                   visible |-> TRUE, size |-> <<g.width, g.height>>,
                   moved |-> <<>>]]

create_window(b, dims, native_size) ==
    IF b = "winit" THEN winit_create_window(dims, native_size)
    ELSE xcb_create_window(dims)

----------------------------------------------------------------------------
(* winit backend: event translation *)

convert_winit_event(e) ==
    IF e.class # "WindowEvent" THEN NoEvent
    ELSE CASE e.kind = "CloseRequested" -> [type |-> "CloseRequested"]
           [] e.kind = "Resized" ->
                [type |-> "ResizeHappened", dims |-> to_physical(e.size, DpiFactor)]
           [] e.kind = "MouseInput" ->
                IF e.button \in MouseButtons
                THEN [type |-> "MouseClick", state |-> e.state,
                      button |-> e.button, pos |-> <<0, 0>>]
                ELSE NoEvent
           [] e.kind = "CursorMoved" ->
                [type |-> "MouseMove", pos |-> to_physical(e.position, DpiFactor)]
           [] OTHER -> NoEvent

\* fault variant of winit_on_event: the click keeps the translator's (0, 0)
winit_on_event_keeps_zero(e, st) ==
    LET conv == convert_winit_event(e) IN
    IF conv = NoEvent
    THEN [st EXCEPT !.log = Append(@, [nat |-> e, out |-> NoEvent])]
    ELSE [st EXCEPT !.buf = Append(@, conv),
                    !.cache = IF conv.type = "MouseMove" THEN conv.pos ELSE @,
                    !.log = Append(@, [nat |-> e, out |-> conv])]

\* fault variant of winit_on_event: the two arms of the match are swapped,
\* the click's own pos goes into the cache and a move takes the cached pos
winit_on_event_swapped_arms(e, st) ==
    LET conv == convert_winit_event(e) IN
    IF conv = NoEvent
    THEN [st EXCEPT !.log = Append(@, [nat |-> e, out |-> NoEvent])]
    ELSE LET evt == IF conv.type = "MouseMove"
                    THEN [conv EXCEPT !.pos = st.cache]
                    ELSE conv
             cache == IF conv.type = "MouseClick" THEN conv.pos ELSE st.cache
         IN [st EXCEPT !.buf = Append(@, evt), !.cache = cache,
                       !.log = Append(@, [nat |-> e, out |-> evt])]

\* the closure WinitBackend::get_window_events passes to poll_events, applied
\* to one native event; st = [buf, cache, log]
winit_on_event(e, st) ==
    LET conv == convert_winit_event(e) IN
    IF conv = NoEvent
    THEN [st EXCEPT !.log = Append(@, [nat |-> e, out |-> NoEvent])]
    ELSE LET evt == IF conv.type = "MouseClick"
                    THEN [conv EXCEPT !.pos = st.cache]
                    ELSE conv
             cache == IF conv.type = "MouseMove" THEN conv.pos ELSE st.cache
         IN [st EXCEPT !.buf = Append(@, evt), !.cache = cache,
                       !.log = Append(@, [nat |-> e, out |-> evt])]

\* fault variant of winit_poll_events: the events behind one that translates
\* to nothing stay pending
RECURSIVE winit_poll_events_stops_at_drop(_, _)
winit_poll_events_stops_at_drop(pending, st) ==
    IF pending = <<>> \/ convert_winit_event(Head(pending)) = NoEvent
    THEN [st EXCEPT !.left = pending]
    ELSE winit_poll_events_stops_at_drop(Tail(pending),
                                         winit_on_event(Head(pending), st))

\* events_loop.poll_events: the closure runs on every pending event
RECURSIVE winit_poll_events(_, _)
winit_poll_events(pending, st) ==
    IF pending = <<>> THEN [st EXCEPT !.left = pending]
    ELSE winit_poll_events(Tail(pending), winit_on_event(Head(pending), st))

----------------------------------------------------------------------------
(* XCB backend: event translation *)

BUTTON_PRESS == 4
BUTTON_RELEASE == 5
EXPOSE == 12
DESTROY_NOTIFY == 17
CONFIGURE_NOTIFY == 22
CLIENT_MESSAGE == 33

\* bit 7 of response_type: the event was sent by another client
SentBit == 128

\* XcbBackend.wm_delete_window_atom, interned by init
WmDeleteWindowAtom == 300

\* response_type() & !0x80 on a u8
ClearSentBit(rt) == IF rt >= SentBit THEN rt - SentBit ELSE rt

\* fault variant of xcb_translate: the match on the detail code is filled in
\* (1 Left, 2 Middle, 3 Right, any other code gives no event)
xcb_translate_maps_detail(e) ==
    LET code == ClearSentBit(e.response_type) IN
    IF code \in {BUTTON_PRESS, BUTTON_RELEASE}
    THEN IF e.detail \in {1, 2, 3}
         THEN [type |-> "MouseClick",
               state |-> IF code = BUTTON_PRESS THEN "Pressed" ELSE "Released",
               button |-> CASE e.detail = 1 -> "Left"
                            [] e.detail = 2 -> "Middle"
                            [] e.detail = 3 -> "Right",
               pos |-> <<e.event_x, e.event_y>>]
         ELSE NoEvent
    ELSE IF code = EXPOSE THEN [type |-> "Expose"]
    ELSE IF code = DESTROY_NOTIFY THEN [type |-> "CloseHappened"]
    ELSE IF code = CLIENT_MESSAGE /\ e.data32_0 = WmDeleteWindowAtom
    THEN [type |-> "CloseRequested"]
    ELSE NoEvent

\* the match of XcbBackend::get_window_events on one native event
xcb_translate(e) ==
    LET code == ClearSentBit(e.response_type) IN
    CASE code = BUTTON_PRESS ->
           [type |-> "MouseClick", state |-> "Pressed", button |-> "Left",
            pos |-> <<e.event_x, e.event_y>>]
      [] code = BUTTON_RELEASE ->
           [type |-> "MouseClick", state |-> "Released", button |-> "Left",
            pos |-> <<e.event_x, e.event_y>>]
      [] code = EXPOSE -> [type |-> "Expose"]
      [] code = DESTROY_NOTIFY -> [type |-> "CloseHappened"]
      [] code = CLIENT_MESSAGE ->
           IF e.data32_0 = WmDeleteWindowAtom
           THEN [type |-> "CloseRequested"]
           ELSE NoEvent
      [] OTHER -> NoEvent

\* one iteration of the while-let loop
xcb_on_event(e, st) ==
    LET evt == xcb_translate(e) IN
    [st EXCEPT !.buf = IF evt = NoEvent THEN @ ELSE Append(@, evt),
               !.log = Append(@, [nat |-> e, out |-> evt])]

\* fault variant of xcb_poll_loop: the loop ends at the first event that
\* translates to nothing
RECURSIVE xcb_poll_loop_stops_at_drop(_, _)
xcb_poll_loop_stops_at_drop(pending, st) ==
    IF pending = <<>> \/ xcb_translate(Head(pending)) = NoEvent
    THEN [st EXCEPT !.left = pending]
    ELSE xcb_poll_loop_stops_at_drop(Tail(pending), xcb_on_event(Head(pending), st))

\* while let Some(event) = conn.poll_for_event()
RECURSIVE xcb_poll_loop(_, _)
xcb_poll_loop(pending, st) ==
    IF pending = <<>> THEN [st EXCEPT !.left = pending]
    ELSE xcb_poll_loop(Tail(pending), xcb_on_event(Head(pending), st))

\* WindowBackend::get_window_events for either backend
get_window_events(b, pending, buf, cache, log) ==
    LET st == [buf |-> buf, cache |-> cache, log |-> log, left |-> pending] IN
    IF b = "winit" THEN winit_poll_events(pending, st)
    ELSE xcb_poll_loop(pending, st)

----------------------------------------------------------------------------
(* Drawing backend and application driver *)

\* a cairo context as CairoBackend uses it: gstate is the current graphics
\* state, saved the stack cairo_save keeps, groups the stack of intermediate
\* surfaces push_group redirects drawing to (a picture is a set of marks)
\* Context::new: operator OVER, line width 2.0, source opaque black
Context_new ==
    [gstate |-> [operator |-> "Over", line_width |-> 2,
                 source |-> [kind |-> "rgba", rgba |-> "black"]],
     saved |-> <<>>, groups |-> <<>>, status |-> "Success"]

\* Context::push_group: cairo_save, then a fresh intermediate surface
push_group(c) ==
    [c EXCEPT !.saved = Append(@, c.gstate), !.groups = Append(@, {})]

\* Context::pop_group_to_source: the redirection ends, cairo_restore brings
\* back the graphics state push_group saved, and the group becomes the source
pop_group_to_source(c) ==
    IF c.groups = <<>> THEN [c EXCEPT !.status = "InvalidPopGroup"]
    ELSE LET n == Len(c.groups) IN
         [c EXCEPT !.gstate = [c.saved[n] EXCEPT
                                 !.source = [kind |-> "group",
                                             content |-> c.groups[n]]],
                   !.saved = SubSeq(@, 1, n - 1),
                   !.groups = SubSeq(@, 1, n - 1)]

\* what a drawing operation puts on its target: painting a group pattern
\* transfers the group's picture, anything else leaves one mark
Marks(op, gstate) ==
    IF gstate.source.kind = "group"
    THEN IF op = "paint" THEN gstate.source.content
         ELSE {[op |-> op, ink |-> "pattern", line_width |-> gstate.line_width]}
    ELSE {[op |-> op, ink |-> gstate.source.rgba,
           line_width |-> IF op = "stroke" THEN gstate.line_width ELSE 0]}

\* the operator applied to what the target already holds
Composite(operator, old, marks) ==
    IF operator = "Source" THEN marks ELSE old \cup marks

\* a drawing operation on the current target of the context: the innermost
\* group, or the surface when no group is open; d = [ctx, pixels]
DrawOn(d, op) ==
    LET n == Len(d.ctx.groups)
        marks == Marks(op, d.ctx.gstate)
        operator == d.ctx.gstate.operator
    IN IF n = 0
       THEN [d EXCEPT !.pixels = Composite(operator, @, marks)]
       ELSE [d EXCEPT !.ctx.groups[n] = Composite(operator, @, marks)]

set_line_width(d, width) == [d EXCEPT !.ctx.gstate.line_width = width]

set_source_rgba(d, rgba) ==
    [d EXCEPT !.ctx.gstate.source = [kind |-> "rgba", rgba |-> rgba]]

stroke(d) == DrawOn(d, "stroke")

paint(d) == DrawOn(d, "paint")

\* CairoBackend::clear: paint with the SOURCE operator, then the old operator
clear(d) ==
    LET old_operator == d.ctx.gstate.operator
        painted == paint([d EXCEPT !.ctx.gstate.operator = "Source"])
    IN [painted EXCEPT !.ctx.gstate.operator = old_operator]

\* CairoBackend::new on a surface with nothing drawn on it
CairoBackend_new == [ctx |-> push_group(Context_new), pixels |-> {}]

\* CairoBackend::present
present(d) ==
    LET popped == [d EXCEPT !.ctx = pop_group_to_source(d.ctx)]
        cleared == clear(popped)
    IN [cleared EXCEPT !.ctx = push_group(cleared.ctx)]

\* CairoBackend::resize_surface: the size handed to cairo_xlib_surface_set_size
resize_surface(dims) == <<F64AsI32(dims[1]), F64AsI32(dims[2])>>

\* fault variant of pop_front: the newest event is taken
pop_back(buf) == [evt |-> buf[Len(buf)], rest |-> SubSeq(buf, 1, Len(buf) - 1)]

\* VecDeque::pop_front on a queue that is not empty
pop_front(buf) == [evt |-> Head(buf), rest |-> Tail(buf)]

\* fault variant of app_on_event: a close request closes the window
app_on_event_closes_window(evt, st) ==
    IF evt.type = "ResizeHappened"
    THEN [st EXCEPT !.surface = resize_surface(evt.dims), !.frame_dims = evt.dims]
    ELSE IF evt.type = "CloseRequested"
    THEN [st EXCEPT !.window.state = "closed"]
    ELSE st

\* the body of the while-let loop of App::poll_events for one event, up to
\* the call of the callback: st = [surface, frame_dims, window]
app_on_event(evt, st) ==
    IF evt.type = "ResizeHappened"
    THEN [st EXCEPT !.surface = resize_surface(evt.dims), !.frame_dims = evt.dims]
    ELSE st

----------------------------------------------------------------------------
(* XCB property marshalling *)

ATOM_ANY == 0
ATOM_ATOM == 4
ATOM_CARDINAL == 6
ATOM_STRING == 31

\* the atom the server interns for "UTF8_STRING": above the predefined atoms
Utf8StringAtom == 301

PropertyTypes == {"Atom", "Cardinal", "Utf8String", "Latin1String"}

\* XPropertyType::atom
atom(t) ==
    CASE t = "Atom" -> ATOM_ATOM
      [] t = "Latin1String" -> ATOM_STRING
      [] t = "Utf8String" -> Utf8StringAtom
      [] t = "Cardinal" -> ATOM_CARDINAL

\* XPropertyFormat::size for the F each logical type is implemented over
\* (u32 for Atom and Cardinal, u8 for the string types)
size(t) == IF t \in {"Atom", "Cardinal"} THEN 4 ELSE 1

\* XPropertyFormat::format
format(t) == size(t) * 8

\* the bytes of one u32 in the client's (little-endian) byte order
u32_bytes(w) ==
    <<w % 256, (w \div 256) % 256, (w \div 65536) % 256, (w \div 16777216) % 256>>

\* the u32 made of four bytes
bytes_u32(b) == b[1] + 256 * b[2] + 65536 * b[3] + 16777216 * b[4]

RECURSIVE Flatten(_)
Flatten(ss) == IF ss = <<>> THEN <<>> ELSE Head(ss) \o Flatten(Tail(ss))

\* the request data of change_property for a Vec<F>
wire_bytes(t, buf) ==
    IF size(t) = 4 THEN Flatten([i \in 1..Len(buf) |-> u32_bytes(buf[i])]) ELSE buf

\* GetPropertyReply::value::<u32>()
value_u32(bytes) ==
    [i \in 1..(Len(bytes) \div 4) |-> bytes_u32(SubSeq(bytes, 4 * i - 3, 4 * i))]

\* slice::split(|b| *b == 0): the segments between 0 bytes, empty ones included
RECURSIVE split_acc(_, _)
split_acc(bytes, cur) ==
    IF bytes = <<>> THEN <<cur>>
    ELSE IF Head(bytes) = 0 THEN <<cur>> \o split_acc(Tail(bytes), <<>>)
    ELSE split_acc(Tail(bytes), Append(cur, Head(bytes)))

split(bytes) == split_acc(bytes, <<>>)

\* fault variant of filter_non_empty: the filter is left out
filter_non_empty_keeps_all(segs) == segs

\* .filter(|s| !s.is_empty())
filter_non_empty(segs) == SelectSeq(segs, LAMBDA seg : seg # <<>>)

IsCont(b) == b >= 128 /\ b <= 191

\* String::from_utf8 succeeds: well-formed UTF-8
RECURSIVE is_utf8(_)
is_utf8(b) ==
    IF b = <<>> THEN TRUE
    ELSE LET h == b[1]
             n == Len(b)
         IN CASE h < 128 -> is_utf8(Tail(b))
              [] h >= 194 /\ h <= 223 ->
                   n >= 2 /\ IsCont(b[2]) /\ is_utf8(SubSeq(b, 3, n))
              [] h >= 224 /\ h <= 239 ->
                   /\ n >= 3 /\ IsCont(b[2]) /\ IsCont(b[3])
                   /\ (h = 224 => b[2] >= 160)
                   /\ (h = 237 => b[2] <= 159)
                   /\ is_utf8(SubSeq(b, 4, n))
              [] h >= 240 /\ h <= 244 ->
                   /\ n >= 4 /\ IsCont(b[2]) /\ IsCont(b[3]) /\ IsCont(b[4])
                   /\ (h = 240 => b[2] >= 144)
                   /\ (h = 244 => b[2] <= 143)
                   /\ is_utf8(SubSeq(b, 5, n))
              [] OTHER -> FALSE

Ok(v) == [ok |-> TRUE, val |-> v]
Err(e) == [ok |-> FALSE, err |-> e]
TypeMismatch(expected, found) ==
    [ok |-> FALSE, err |-> "PropertyTypeMismatch", expected |-> expected, found |-> found]

\* fault variant of cardinal_from_property_reply: the check copied from the
\* Atom implementation compares against ATOM
cardinal_from_property_reply_checks_atom(reply) ==
    IF reply.type # atom("Atom")
    THEN TypeMismatch(atom("Atom"), reply.type)
    ELSE Ok(value_u32(reply.value))

\* <CardinalProperty as XProperty<u32>>::from_property_reply
cardinal_from_property_reply(reply) ==
    IF reply.type # atom("Cardinal")
    THEN TypeMismatch(atom("Cardinal"), reply.type)
    ELSE Ok(value_u32(reply.value))

\* <AtomProperty as XProperty<u32>>::from_property_reply
atom_from_property_reply(reply) ==
    IF reply.type # atom("Atom")
    THEN TypeMismatch(atom("Atom"), reply.type)
    ELSE Ok(value_u32(reply.value))

\* fault variant of string_from_property_reply: a segment that is not valid
\* UTF-8 is skipped and the others are returned
string_from_property_reply_skips_invalid(reply) ==
    Ok(SelectSeq(filter_non_empty(split(reply.value)), is_utf8))

\* <String as XProperty<u8>>::from_property_reply
string_from_property_reply(reply) ==
    LET segs == filter_non_empty(split(reply.value)) IN
    IF \A i \in 1..Len(segs) : is_utf8(segs[i])
    THEN Ok(segs)
    ELSE Err("PropertyEncodingError")

\* <Latin1String as XProperty<u8>>::from_property_reply
latin1_from_property_reply(reply) == Ok(filter_non_empty(split(reply.value)))

from_property_reply(t, reply) ==
    CASE t = "Cardinal" -> cardinal_from_property_reply(reply)
      [] t = "Atom" -> atom_from_property_reply(reply)
      [] t = "Utf8String" -> string_from_property_reply(reply)
      [] t = "Latin1String" -> latin1_from_property_reply(reply)

\* to_property_value of CardinalProperty and AtomProperty: the wrapped u32s
u32_to_property_value(values) == [i \in 1..Len(values) |-> values[i]]

\* fault variant of string_to_property_value: the 0 byte separates elements
\* and is not written after the last one
RECURSIVE string_to_property_value_separates(_)
string_to_property_value_separates(values) ==
    IF values = <<>> THEN <<>>
    ELSE IF Len(values) = 1 THEN Head(values)
    ELSE (Head(values) \o <<0>>) \o string_to_property_value_separates(Tail(values))

\* to_property_value of String and Latin1String: each element's bytes, then a 0
RECURSIVE string_to_property_value(_)
string_to_property_value(values) ==
    IF values = <<>> THEN <<>>
    ELSE (Head(values) \o <<0>>) \o string_to_property_value(Tail(values))

to_property_value(t, values) ==
    IF t \in {"Atom", "Cardinal"} THEN u32_to_property_value(values)
    ELSE string_to_property_value(values)

NoProp == [type |-> ATOM_ANY, format |-> 0, data |-> <<>>]

PROP_MODE_REPLACE == 0

\* the arguments XcbBackend::set_property hands to xcb::change_property
change_property_args(t, values) ==
    [mode |-> PROP_MODE_REPLACE, type |-> atom(t), format |-> format(t),
     data |-> to_property_value(t, values)]

\* XcbBackend::set_property: a replace-mode change_property
set_property(t, values) ==
    [type |-> atom(t), format |-> format(t),
     data |-> wire_bytes(t, to_property_value(t, values))]

Min(a, b) == IF a < b THEN a ELSE b

\* the X server's answer to the GetProperty request of XcbBackend::get_property
server_get_property(prop, property_type, offset, length) ==
    IF property_type # ATOM_ANY /\ prop.type # ATOM_ANY /\ property_type # prop.type
    THEN [error |-> FALSE, type |-> prop.type, format |-> prop.format, value |-> <<>>]
    ELSE IF 4 * offset > Len(prop.data)
    THEN [error |-> TRUE]
    ELSE LET first == 4 * offset
             count == Min(Len(prop.data) - first, 4 * length)
         IN [error |-> FALSE, type |-> prop.type, format |-> prop.format,
             value |-> SubSeq(prop.data, first + 1, first + count)]

\* XcbBackend::get_property
get_property(t, prop, property_type, offset, length) ==
    LET reply == server_get_property(prop, property_type, offset, length) IN
    IF reply.error THEN Err("Unknown") ELSE from_property_reply(t, reply)

----------------------------------------------------------------------------
(* Inputs *)

Positions == {<<1, 2>>, <<3, 4>>}
Sizes == {<<400, 300>>, <<640, 480>>}

WinitNatives ==
    {[class |-> "WindowEvent", kind |-> "CloseRequested"],
     [class |-> "WindowEvent", kind |-> "Focused"],
     [class |-> "DeviceEvent"]}
    \cup {[class |-> "WindowEvent", kind |-> "Resized", size |-> s] : s \in Sizes}
    \cup {[class |-> "WindowEvent", kind |-> "CursorMoved", position |-> p] :
            p \in Positions}
    \cup {[class |-> "WindowEvent", kind |-> "MouseInput", state |-> "Pressed",
           button |-> b] : b \in {"Left", "Other"}}
    \cup {[class |-> "WindowEvent", kind |-> "MouseInput", state |-> "Released",
           button |-> b] : b \in {"Right", "Middle"}}

\* X11 button detail codes: 1 is the left button, 8 a side button
XcbDetails == {1, 8}

XcbNatives ==
    {[response_type |-> EXPOSE], [response_type |-> DESTROY_NOTIFY]}
    \cup {[response_type |-> CONFIGURE_NOTIFY, width |-> s[1], height |-> s[2]] :
            s \in {<<400, 300>>}}
    \cup {[response_type |-> CLIENT_MESSAGE + SentBit, data32_0 |-> a] :
            a \in {WmDeleteWindowAtom, WmDeleteWindowAtom + 1}}
    \cup {[response_type |-> BUTTON_PRESS, detail |-> d,
           event_x |-> p[1], event_y |-> p[2]] :
            d \in XcbDetails, p \in Positions}
    \cup {[response_type |-> BUTTON_RELEASE, detail |-> d,
           event_x |-> 1, event_y |-> 2] : d \in XcbDetails}

Natives(b) == IF b = "winit" THEN WinitNatives ELSE XcbNatives

\* the geometry App::new is called with
InitialDims == [x |-> 0, y |-> 0, width |-> 800, height |-> 600]

\* the size the native system gives a window built without dimensions
NativeDefaultSize == <<800, 600>>

----------------------------------------------------------------------------
(* The application driver with one window *)

\* no property operation has happened yet
PropIdle ==
    /\ propStore = NoProp
    /\ propWritten = [t |-> "none"]
    /\ propLast = [op |-> "none"]

\* D::new(surface) has run and nothing has been drawn
DrawIdle ==
    /\ draw = CairoBackend_new
    /\ drawLast = [op |-> "new", calls |-> 0]

\* App::new on backend b
AppNew(b) ==
    /\ backend = b
    /\ window = create_window(b, InitialDims, NativeDefaultSize).win
    /\ native = <<>>
    /\ arrived = 0
    /\ cursor = InitialCursor
    /\ evt_buf = <<>>
    /\ pc = "idle"
    /\ surface = window.size
    /\ frame_dims = window.size
    /\ drained = <<>>
    /\ delivered = <<>>
    /\ lastDrain = [n |-> 0, consumed |-> 0, queued |-> 0, left |-> 0]
    /\ aborted = FALSE
    /\ DrawIdle

Init ==
    /\ \E b \in {"winit", "xcb"} : AppNew(b)
    /\ PropIdle

Running == window.state = "open" /\ ~aborted

\* the native system delivers an event to the window
NativeArrives ==
    /\ Running
    /\ arrived < MaxNative
    /\ \E e \in Natives(backend) : native' = Append(native, e)
    /\ arrived' = arrived + 1
    /\ UNCHANGED <<backend, window, cursor, evt_buf, pc, surface, frame_dims,
                   drained, delivered, lastDrain, aborted, propVars, drawVars>>

\* App::poll_events, first statement: get_window_events into evt_buf
GetWindowEvents ==
    /\ Running
    /\ pc = "idle"
    /\ LET r == get_window_events(backend, native, evt_buf, cursor, drained) IN
        /\ native' = r.left
        /\ evt_buf' = r.buf
        /\ cursor' = r.cache
        /\ drained' = r.log
        /\ lastDrain' = [n |-> Len(native),
                         consumed |-> Len(r.log) - Len(drained),
                         queued |-> Len(r.buf) - Len(evt_buf),
                         left |-> Len(r.left)]
    /\ pc' = "dispatch"
    /\ UNCHANGED <<backend, window, arrived, surface, frame_dims, delivered,
                   aborted, propVars, drawVars>>

\* App::poll_events, one iteration of the loop: pop, side effect, callback
DispatchOne ==
    /\ Running
    /\ pc = "dispatch"
    /\ evt_buf # <<>>
    /\ LET evt == pop_front(evt_buf).evt
           r == app_on_event(evt, [surface |-> surface, frame_dims |-> frame_dims,
                                   window |-> window])
       IN /\ surface' = r.surface
          /\ frame_dims' = r.frame_dims
          /\ window' = r.window
          /\ delivered' = Append(delivered,
                [evt |-> evt, surface |-> r.surface, frame_dims |-> r.frame_dims])
    /\ evt_buf' = pop_front(evt_buf).rest
    /\ UNCHANGED <<backend, native, arrived, cursor, pc, drained,
                   lastDrain, aborted, propVars, drawVars>>

\* App::poll_events returns when pop_front gives None
PollReturn ==
    /\ Running
    /\ pc = "dispatch"
    /\ evt_buf = <<>>
    /\ pc' = "idle"
    /\ UNCHANGED <<backend, window, native, arrived, cursor, evt_buf, surface,
                   frame_dims, drained, delivered, lastDrain, aborted, propVars, drawVars>>

\* WindowBackend::set_window_size: what the call does to the process;
\* unimplemented!() in the winit backend, an error log line in the XCB backend
set_window_size(b) == IF b = "winit" THEN "panic" ELSE "logged error"

SetWindowSize ==
    /\ Running
    /\ pc = "idle"
    /\ \E dims \in Sizes :
        /\ aborted' = (set_window_size(backend) = "panic")
        /\ UNCHANGED <<backend, window, native, arrived, cursor, evt_buf, pc,
                       surface, frame_dims, drained, delivered, lastDrain, propVars, drawVars>>

\* WindowBackend::set_window_position: both backends forward the position to
\* the native window and return Ok
\* the position each backend hands to the native window:
\* LogicalPosition::from_physical(position, 1.0) in the winit backend, the
\* CONFIG_WINDOW_X and CONFIG_WINDOW_Y values in the XCB backend
set_window_position(b, position) ==
    IF b = "winit"
    THEN <<position[1] \div DpiFactor, position[2] \div DpiFactor>>
    ELSE <<position[1], position[2]>>

SetWindowPosition ==
    /\ Running
    /\ pc = "idle"
    /\ \E position \in Positions :
        window' = [window EXCEPT !.moved = set_window_position(backend, position)]
    /\ UNCHANGED <<backend, native, arrived, cursor, evt_buf, pc, surface,
                   frame_dims, drained, delivered, lastDrain, aborted, propVars, drawVars>>

\* App::close: the window handle is consumed
Close ==
    /\ Running
    /\ pc = "idle"
    /\ window' = [window EXCEPT !.state = "closed"]
    /\ UNCHANGED <<backend, native, arrived, cursor, evt_buf, pc, surface,
                   frame_dims, drained, delivered, lastDrain, aborted, propVars, drawVars>>

Next ==
    \/ NativeArrives
    \/ GetWindowEvents
    \/ DispatchOne
    \/ PollReturn
    \/ SetWindowSize
    \/ Close

Spec == Init /\ [][Next]_vars

----------------------------------------------------------------------------
(* Window creation on a backend that has been initialised *)

\* x and y are i32, width and height u32
DimsDomain ==
    {[x |-> x, y |-> y, width |-> w, height |-> h] :
        x \in {0, 100, -5, 40000}, y \in {0, 70000},
        w \in {800, 1, 65535, 65536, 70000}, h \in {600, 65537}}

InitCreate ==
    /\ backend \in {"winit", "xcb"}
    /\ window = [state |-> "none"]
    /\ native = <<>>
    /\ arrived = 0
    /\ cursor = InitialCursor
    /\ evt_buf = <<>>
    /\ pc = "idle"
    /\ surface = <<0, 0>>
    /\ frame_dims = <<0, 0>>
    /\ drained = <<>>
    /\ delivered = <<>>
    /\ lastDrain = [n |-> 0, consumed |-> 0, queued |-> 0, left |-> 0]
    /\ aborted = FALSE
    /\ DrawIdle
    /\ PropIdle

\* WindowBackend::create_window(title, dims)
CreateWindow ==
    /\ window.state = "none"
    /\ \E dims \in DimsDomain :
        window' = create_window(backend, dims, NativeDefaultSize).win
    /\ UNCHANGED <<backend, evVars, propVars, drawVars>>

\* WindowBackend::close(window)
CloseWindow ==
    /\ window.state = "open"
    /\ window' = [window EXCEPT !.state = "closed"]
    /\ UNCHANGED <<backend, evVars, propVars, drawVars>>

NextCreate ==
    \/ CreateWindow
    \/ SetWindowPosition
    \/ SetWindowSize
    \/ CloseWindow

SpecCreate == InitCreate /\ [][NextCreate]_vars

----------------------------------------------------------------------------
(* Property reads and writes on one property of one window *)

\* the longest sequence of values written in one call
MaxValues == 2

U32Values == {0, 258, 2147483647}

\* strings as their UTF-8 bytes: "", "a", "bc"
Strings == {<<>>, <<97>>, <<98, 99>>}

SeqsUpTo(S, n) == UNION {[1..k -> S] : k \in 0..n}

ValuesOf(t) ==
    IF t \in {"Atom", "Cardinal"} THEN SeqsUpTo(U32Values, MaxValues)
    ELSE SeqsUpTo(Strings, MaxValues)

\* the offsets and lengths (in 32-bit units) of the reads
ReadOffsets == {0, 1}
ReadLengths == {1, 4}

\* properties other clients set: WM_CLASS-like STRING data, INTEGER data,
\* UTF8_STRING data that is not well-formed, CARDINAL data
ForeignProps ==
    {[type |-> ATOM_STRING, format |-> 8, data |-> <<97, 0, 98, 0>>],
     [type |-> 19, format |-> 32, data |-> <<7, 0, 0, 0>>],
     [type |-> Utf8StringAtom, format |-> 8, data |-> <<97, 0, 255, 0>>],
     [type |-> ATOM_CARDINAL, format |-> 32, data |-> <<1, 0, 0, 0, 2, 0, 0, 0>>]}

InitProp ==
    /\ AppNew("xcb")
    /\ PropIdle

\* set_property::<F, T>(window, property, values)
SetProperty ==
    \E t \in PropertyTypes : \E values \in ValuesOf(t) :
        /\ propStore' = set_property(t, values)
        /\ propWritten' = [t |-> t, values |-> values]
        /\ propLast' = [op |-> "set", t |-> t, values |-> values,
                        req |-> change_property_args(t, values)]
        /\ UNCHANGED <<backend, window, evVars, drawVars>>

\* another client replaces the property
ForeignChange ==
    /\ \E p \in ForeignProps : propStore' = p
    /\ propWritten' = [t |-> "none"]
    /\ propLast' = [op |-> "foreign"]
    /\ UNCHANGED <<backend, window, evVars, drawVars>>

\* get_property::<F, T>(window, property, property_type, offset, length)
GetProperty ==
    \E t \in PropertyTypes, property_type \in {ATOM_ANY, ATOM_STRING},
       offset \in ReadOffsets, length \in ReadLengths :
        \E ty \in {property_type, atom(t)} :
            /\ propLast' =
                 [op |-> "get", t |-> t, property_type |-> ty,
                  offset |-> offset, length |-> length,
                  reply |-> server_get_property(propStore, ty, offset, length),
                  res |-> get_property(t, propStore, ty, offset, length)]
            /\ UNCHANGED <<backend, window, evVars, propStore, propWritten, drawVars>>

NextProp ==
    \/ SetProperty
    \/ ForeignChange
    \/ GetProperty

SpecProp == InitProp /\ [][NextProp]_vars

----------------------------------------------------------------------------
(* The string codec on its own: encode, then decode the same bytes *)

\* "", "a", "bc", e-acute, the euro sign, "a\0b", "\0"
CodecStrings ==
    {<<>>, <<97>>, <<98, 99>>, <<195, 169>>, <<226, 130, 172>>,
     <<97, 0, 98>>, <<0>>}

\* to_property_value followed by from_property_reply on the same bytes
Codec ==
    \E t \in {"Utf8String", "Latin1String"} :
        \E values \in SeqsUpTo(CodecStrings, MaxValues) :
            LET bytes == to_property_value(t, values) IN
            /\ propLast' =
                 [op |-> "codec", t |-> t, values |-> values, bytes |-> bytes,
                  res |-> from_property_reply(t,
                            [error |-> FALSE, type |-> atom(t),
                             format |-> format(t), value |-> bytes])]
            /\ UNCHANGED <<backend, window, evVars, propStore, propWritten, drawVars>>

SpecCodec == InitProp /\ [][Codec]_vars

----------------------------------------------------------------------------
(* One poll cycle of the XCB backend on a button event of any detail code *)

\* xcb_button_t is a u8
ButtonDetails == 0..255

ButtonNatives ==
    {[response_type |-> rt, detail |-> d, event_x |-> 3, event_y |-> 4] :
        rt \in {BUTTON_PRESS, BUTTON_RELEASE, BUTTON_PRESS + SentBit,
                BUTTON_RELEASE + SentBit},
        d \in ButtonDetails}

\* App::new on the XCB backend, then one button event arrives
InitButtons ==
    /\ backend = "xcb"
    /\ window = create_window("xcb", InitialDims, NativeDefaultSize).win
    /\ \E e \in ButtonNatives : native = <<e>>
    /\ arrived = 1
    /\ cursor = InitialCursor
    /\ evt_buf = <<>>
    /\ pc = "idle"
    /\ surface = window.size
    /\ frame_dims = window.size
    /\ drained = <<>>
    /\ delivered = <<>>
    /\ lastDrain = [n |-> 0, consumed |-> 0, queued |-> 0, left |-> 0]
    /\ aborted = FALSE
    /\ DrawIdle
    /\ PropIdle

NextButtons ==
    \/ GetWindowEvents
    \/ DispatchOne
    \/ PollReturn

SpecButtons == InitButtons /\ [][NextButtons]_vars

----------------------------------------------------------------------------
(* Two windows of the winit backend, each with its events loop and cache *)

Windows == {1, 2}

\* native events that arrive at the two windows during one run
MaxWindowEvents == 3

\* moves to two places, a click, a click of an unmapped button, a resize
CursorNatives ==
    {[class |-> "WindowEvent", kind |-> "CursorMoved", position |-> p] :
        p \in Positions}
    \cup {[class |-> "WindowEvent", kind |-> "MouseInput", state |-> "Pressed",
           button |-> b] : b \in {"Left", "Other"}}
    \cup {[class |-> "WindowEvent", kind |-> "Resized", size |-> <<400, 300>>]}

\* WinitBackend::init has run and no window exists
InitWindows ==
    /\ backend = "winit"
    /\ window = [w \in Windows |-> [state |-> "none"]]
    /\ native = [w \in Windows |-> <<>>]
    /\ arrived = 0
    /\ cursor = [w \in Windows |-> <<>>]
    /\ evt_buf = [w \in Windows |-> <<>>]
    /\ drained = [w \in Windows |-> <<>>]
    /\ pc = "idle"
    /\ surface = <<0, 0>>
    /\ frame_dims = <<0, 0>>
    /\ delivered = <<>>
    /\ lastDrain = [n |-> 0, consumed |-> 0, queued |-> 0, left |-> 0]
    /\ aborted = FALSE
    /\ DrawIdle
    /\ PropIdle

\* WinitBackend::create_window gives window w
CreateWinitWindow(w) ==
    /\ window[w].state = "none"
    /\ window' = [window EXCEPT
                    ![w] = winit_create_window(InitialDims, NativeDefaultSize).win]
    /\ cursor' = [cursor EXCEPT ![w] = InitialCursor]
    /\ UNCHANGED <<backend, native, arrived, evt_buf, pc, surface, frame_dims,
                   drained, delivered, lastDrain, aborted, propVars, drawVars>>

\* the native system delivers an event to the events loop of window w
NativeArrivesAt(w) ==
    /\ window[w].state = "open"
    /\ arrived < MaxWindowEvents
    /\ \E e \in CursorNatives : native' = [native EXCEPT ![w] = Append(@, e)]
    /\ arrived' = arrived + 1
    /\ UNCHANGED <<backend, window, cursor, evt_buf, pc, surface, frame_dims,
                   drained, delivered, lastDrain, aborted, propVars, drawVars>>

\* WinitBackend::get_window_events(window w, its event buffer)
GetWindowEventsOf(w) ==
    /\ window[w].state = "open"
    /\ native[w] # <<>>
    /\ LET r == get_window_events("winit", native[w], evt_buf[w], cursor[w],
                                  drained[w])
       IN /\ native' = [native EXCEPT ![w] = r.left]
          /\ evt_buf' = [evt_buf EXCEPT ![w] = r.buf]
          /\ cursor' = [cursor EXCEPT ![w] = r.cache]
          /\ drained' = [drained EXCEPT ![w] = r.log]
    /\ UNCHANGED <<backend, window, arrived, pc, surface, frame_dims,
                   delivered, lastDrain, aborted, propVars, drawVars>>

NextWindows ==
    \/ \E w \in Windows : CreateWinitWindow(w)
    \/ \E w \in Windows : NativeArrivesAt(w)
    \/ \E w \in Windows : GetWindowEventsOf(w)

SpecWindows == InitWindows /\ [][NextWindows]_vars

----------------------------------------------------------------------------
(* Decoding the value of a string property whatever its bytes are *)

\* the longest property value decoded
MaxBuf == 4

\* the terminator, "a", a byte that never occurs in UTF-8, and the two bytes
\* of e-acute
DecodeBytes == {0, 97, 255, 195, 169}

\* a read of a string type is about to decode a reply with these bytes
InitDecode ==
    /\ AppNew("xcb")
    /\ propStore = NoProp
    /\ propWritten = [t |-> "none"]
    /\ \E t \in {"Utf8String", "Latin1String"} :
         \E bytes \in SeqsUpTo(DecodeBytes, MaxBuf) :
             propLast = [op |-> "reply", t |-> t, bytes |-> bytes]

\* from_property_reply of a string type on the reply to a GetProperty request
Decode ==
    /\ propLast.op = "reply"
    /\ propLast' =
         [op |-> "decode", t |-> propLast.t, bytes |-> propLast.bytes,
          res |-> from_property_reply(propLast.t,
                    [error |-> FALSE, type |-> atom(propLast.t),
                     format |-> format(propLast.t), value |-> propLast.bytes])]
    /\ UNCHANGED <<backend, window, evVars, propStore, propWritten, drawVars>>

SpecDecode == InitDecode /\ [][Decode]_vars

----------------------------------------------------------------------------
(* Drawing frames on the Cairo backend *)

\* drawing calls made during one run
MaxCalls == 5

LineWidths == {2, 5}
Colours == {"black", "red"}

InitDraw ==
    /\ AppNew("xcb")
    /\ PropIdle

\* one call on the drawer; the history keeps the state the call started from
DrawCall(op, after) ==
    /\ drawLast.calls < MaxCalls
    /\ draw' = after
    /\ drawLast' = [op |-> op, before |-> draw, calls |-> drawLast.calls + 1]
    /\ UNCHANGED <<backend, window, evVars, propVars>>

SetLineWidth == \E w \in LineWidths : DrawCall("set_line_width", set_line_width(draw, w))

SetSourceRgba == \E c \in Colours : DrawCall("set_source_rgba", set_source_rgba(draw, c))

Stroke == DrawCall("stroke", stroke(draw))

Paint == DrawCall("paint", paint(draw))

Clear == DrawCall("clear", clear(draw))

Present == DrawCall("present", present(draw))

NextDraw ==
    \/ SetLineWidth
    \/ SetSourceRgba
    \/ Stroke
    \/ Paint
    \/ Clear
    \/ Present

SpecDraw == InitDraw /\ [][NextDraw]_vars

----------------------------------------------------------------------------
(* Properties of event translation *)

Max(S) == CHOOSE m \in S : \A x \in S : x <= m

Drained == 1..Len(drained)

IsClick(i) == drained[i].out.type = "MouseClick"

\* the index in the log of the most recent MouseMove queued before entry i,
\* 0 when there is none
LastMoveBefore(i) ==
    LET moves == {j \in 1..(i - 1) : drained[j].out.type = "MouseMove"} IN
    IF moves = {} THEN 0 ELSE Max(moves)

\* the native event carries click coordinates of its own
HasCoords(nat) == "event_x" \in DOMAIN nat

\* C1 as stated: in both backends every queued MouseClick carries the pos of
\* the most recent MouseMove queued earlier for the window, and never the
\* coordinates of the native click payload.
C1_ClickPosFromLastMoveNeverPayload ==
    \A i \in Drained : IsClick(i) =>
        LET m == LastMoveBefore(i)
            e == drained[i]
        IN /\ (m # 0 => e.out.pos = drained[m].out.pos)
           /\ (HasCoords(e.nat) /\ e.out.pos = <<e.nat.event_x, e.nat.event_y>>
                 => m # 0 /\ drained[m].out.pos = e.out.pos)

\* C1 amended: in the winit backend every queued MouseClick carries the pos
\* of the most recent MouseMove queued earlier for the window ((0, 0) when
\* there is none); in the XCB backend no MouseMove is queued and every queued
\* MouseClick carries the native click payload's (event_x, event_y).
C1_ClickPosPerBackend ==
    \A i \in Drained : IsClick(i) =>
        LET m == LastMoveBefore(i)
            e == drained[i]
        IN IF backend = "winit"
           THEN e.out.pos = (IF m = 0 THEN <<0, 0>> ELSE drained[m].out.pos)
           ELSE m = 0 /\ e.out.pos = <<e.nat.event_x, e.nat.event_y>>

\* a winit click drained by a later call than two moves to different places
C1_Witness ==
    /\ backend = "winit"
    /\ Len(drained) = 3
    /\ lastDrain.n = 1
    /\ drained[1].out.type = "MouseMove"
    /\ drained[2].out.type = "MouseMove"
    /\ drained[1].out.pos # drained[2].out.pos
    /\ IsClick(3)
    /\ drained[3].out.pos = drained[2].out.pos

\* the native event is a mouse button press or release
IsNativeButton(b, nat) ==
    IF b = "winit" THEN nat.class = "WindowEvent" /\ nat.kind = "MouseInput"
    ELSE ClearSentBit(nat.response_type) \in {BUTTON_PRESS, BUTTON_RELEASE}

\* the native button code is one of Left, Right, Middle (X11 details 1, 3, 2)
IsMappedButton(b, nat) ==
    IF b = "winit" THEN nat.button \in MouseButtons
    ELSE nat.detail \in {1, 2, 3}

\* C2: a native button event whose button is not Left, Right or Middle queues
\* no WindowEvent, in either backend.
C2_UnmappedButtonDropped ==
    \A i \in Drained :
        IsNativeButton(backend, drained[i].nat)
          /\ ~IsMappedButton(backend, drained[i].nat)
        => drained[i].out = NoEvent

----------------------------------------------------------------------------
(* Properties of property marshalling *)

\* the last operation was a get_property whose request the server answered
GotReply == propLast.op = "get" /\ ~propLast.reply.error

\* C3: a get_property::<F, T> whose reply carries a wire type other than T's
\* returns Err(PropertyTypeMismatch{expected, found}), for every T.
C3_TypeMismatchRejected ==
    GotReply /\ propLast.reply.type # atom(propLast.t)
    => propLast.res = TypeMismatch(atom(propLast.t), propLast.reply.type)

\* the last operation read back, with the same type, from offset 0 and with
\* a sufficient length, a non-empty Atom or Cardinal sequence written before
ReadBackU32 ==
    /\ propLast.op = "get"
    /\ propLast.t \in {"Atom", "Cardinal"}
    /\ propWritten.t = propLast.t
    /\ propWritten.values # <<>>
    /\ propLast.property_type = atom(propLast.t)
    /\ propLast.offset = 0
    /\ propLast.length >= Len(propWritten.values)

\* C4: a non-empty Atom or Cardinal sequence written with set_property and
\* read back with the same type, offset 0 and a sufficient length comes back
\* unchanged.
C4_U32RoundTrip == ReadBackU32 => propLast.res = Ok(propWritten.values)

\* two different Cardinals, one of them using all four bytes, read back
C4_Witness ==
    /\ ReadBackU32
    /\ propLast.t = "Cardinal"
    /\ Len(propWritten.values) = 2
    /\ propWritten.values[1] > 16777216
    /\ propWritten.values[2] # propWritten.values[1]
    /\ propLast.res.ok

NonEmpty(values) == SelectSeq(values, LAMBDA v : v # <<>>)

HasNul(v) == \E i \in 1..Len(v) : v[i] = 0

Utf8Codec == propLast.op = "codec" /\ propLast.t = "Utf8String"

\* C5 as stated: decoding the encoding of any sequence of UTF-8 strings gives
\* the sequence without its empty strings (so a sequence of non-empty
\* strings comes back unchanged).
C5_StringRoundTripAnyString ==
    Utf8Codec => propLast.res = Ok(NonEmpty(propLast.values))

\* C5 amended: the same, for strings that contain no 0 byte.
C5_StringRoundTripNoNul ==
    Utf8Codec /\ (\A i \in 1..Len(propLast.values) : ~HasNul(propLast.values[i]))
    => propLast.res = Ok(NonEmpty(propLast.values))

\* a multi-byte string and an empty string encoded and decoded
C5_Witness ==
    /\ Utf8Codec
    /\ Len(propLast.values) = 2
    /\ propLast.values[1] = <<>>
    /\ Len(propLast.values[2]) > 1
    /\ ~HasNul(propLast.values[2])
    /\ propLast.res = Ok(<<propLast.values[2]>>)

----------------------------------------------------------------------------
(* Properties of the poll cycle and of the window operations *)

Delivered == 1..Len(delivered)

\* the native event reports a new window size
IsNativeResize(b, nat) ==
    IF b = "winit" THEN nat.class = "WindowEvent" /\ nat.kind = "Resized"
    ELSE ClearSentBit(nat.response_type) = CONFIGURE_NOTIFY

\* the physical size a native resize reports
NativeResizeDims(b, nat) ==
    IF b = "winit" THEN to_physical(nat.size, DpiFactor)
    ELSE <<nat.width, nat.height>>

\* C6: after a poll cycle that drained a native resize to (w, h) the surface
\* has been resized to (w, h) and frame_dims is (w, h); at every callback
\* with a ResizeHappened the surface size and frame_dims are that event's dims.
C6_ResizeAppliedBeforeCallback ==
    /\ \A k \in Delivered : delivered[k].evt.type = "ResizeHappened" =>
          /\ delivered[k].surface = delivered[k].evt.dims
          /\ delivered[k].frame_dims = delivered[k].evt.dims
    /\ LET resizes == {i \in Drained : IsNativeResize(backend, drained[i].nat)} IN
       pc = "idle" /\ resizes # {} =>
          LET dims == NativeResizeDims(backend, drained[Max(resizes)].nat) IN
          /\ surface = dims
          /\ frame_dims = dims
          /\ \E k \in Delivered :
                delivered[k].evt = [type |-> "ResizeHappened", dims |-> dims]

\* the native event asks for the window to be closed
IsNativeCloseRequest(b, nat) ==
    IF b = "winit" THEN nat.class = "WindowEvent" /\ nat.kind = "CloseRequested"
    ELSE /\ ClearSentBit(nat.response_type) = CLIENT_MESSAGE
         /\ nat.data32_0 = WmDeleteWindowAtom

CloseRequestsDrained ==
    Cardinality({i \in Drained : IsNativeCloseRequest(backend, drained[i].nat)})

CloseRequestsDelivered ==
    Cardinality({k \in Delivered : delivered[k].evt.type = "CloseRequested"})

\* every native close request is translated to CloseRequested and delivered
\* once, and nothing else is delivered as CloseRequested
OneCloseRequestedEach ==
    /\ \A i \in Drained : IsNativeCloseRequest(backend, drained[i].nat)
          => drained[i].out = [type |-> "CloseRequested"]
    /\ CloseRequestsDelivered <= CloseRequestsDrained
    /\ (pc = "idle" => CloseRequestsDelivered = CloseRequestsDrained)

\* C7: each native close request is delivered as exactly one CloseRequested,
\* and the window stays open until close() is called: only App::close
\* changes the state of the window handle.
C7_CloseRequestedKeepsWindow ==
    /\ []OneCloseRequestedEach
    /\ [][window'.state # window.state => Close]_vars

\* a CloseRequested was delivered, the window is open, and a later poll
\* cycle has delivered another event
C7_Witness ==
    /\ window.state = "open"
    /\ pc = "idle"
    /\ Len(delivered) >= 2
    /\ delivered[1].evt.type = "CloseRequested"
    /\ lastDrain.n = 1
    /\ lastDrain.queued = 1

\* C8: get_window_events consumes exactly the native events pending when it
\* is called and leaves none pending; with none pending it queues nothing.
C8_DrainsAllPending ==
    /\ lastDrain.consumed = lastDrain.n
    /\ lastDrain.left = 0
    /\ lastDrain.queued <= lastDrain.n
    /\ (lastDrain.n = 0 => lastDrain.queued = 0)

\* a call that found several events pending, some of them dropped
C8_Witness ==
    /\ lastDrain.n >= 2
    /\ lastDrain.queued >= 1
    /\ lastDrain.queued < lastDrain.n
    /\ lastDrain.left = 0

\* C9: a successfully created window is visible and its requested position
\* and size are exactly those of dims.
C9_CreatedAtRequestedGeometry ==
    window.state = "open" => window.visible /\ window.geom = window.asked

\* C10: set_window_size and set_window_position never abort the process and
\* leave the cursor-position cache and the pending events unchanged.
C10_SetSizeAndPositionNeverAbort ==
    [][SetWindowSize \/ SetWindowPosition
         => ~aborted' /\ window'.state = "open"
            /\ UNCHANGED <<cursor, native, evt_buf>>]_vars

----------------------------------------------------------------------------
(* Properties of the drawing backend *)

GroupDepth == Len(draw.ctx.groups)

\* the compositing operator, the line width and the current source
PaintState(d) == d.ctx.gstate

Presented == drawLast.op = "present"

\* what was drawn since the previous present is what the surface shows
PresentComposites == Presented => draw.pixels = drawLast.before.ctx.groups[1]

\* exactly one accumulation group is open after new and after every call
OneGroupOpen == GroupDepth = 1

\* C11: after CairoBackend::new and any sequence of drawing calls and
\* presents exactly one accumulation group is open, a present puts the
\* accumulated drawing on the surface, and a present leaves the paint state
\* (operator, line width, source) as it was just before that present
C11_PresentReopensEquivalentContext ==
    /\ OneGroupOpen
    /\ PresentComposites
    /\ Presented => PaintState(draw) = PaintState(drawLast.before)

----------------------------------------------------------------------------
(* Properties of property writes and of string decoding *)

IsStringType(t) == t \in {"Utf8String", "Latin1String"}

\* the number of bytes elements 1..k of values take, terminators included
RECURSIVE EncodedLen(_, _)
EncodedLen(values, k) ==
    IF k = 0 THEN 0 ELSE EncodedLen(values, k - 1) + Len(values[k]) + 1

\* buf holds, in order, each element's bytes followed by one 0 byte
TerminatedConcat(values, buf) ==
    /\ Len(buf) = EncodedLen(values, Len(values))
    /\ \A i \in 1..Len(values) :
         LET off == EncodedLen(values, i - 1) IN
         /\ SubSeq(buf, off + 1, off + Len(values[i])) = values[i]
         /\ buf[off + Len(values[i]) + 1] = 0

\* the wire type and the element width in bits of each property type
WireTag(t) ==
    CASE t = "Atom" -> <<ATOM_ATOM, 32>>
      [] t = "Cardinal" -> <<ATOM_CARDINAL, 32>>
      [] t = "Utf8String" -> <<Utf8StringAtom, 8>>
      [] t = "Latin1String" -> <<ATOM_STRING, 8>>

\* C12: set_property issues a replace-mode write tagged with the wire type
\* of T and the element width of F in bits, the stored property is what was
\* written whatever was stored before, and for the string types the buffer
\* is each element's bytes followed by one 0 byte, the last element
\* included, so its length is the sum of the byte lengths plus n
C12_SetPropertyEncoding ==
    propLast.op = "set" =>
        /\ propLast.req.mode = PROP_MODE_REPLACE
        /\ <<propLast.req.type, propLast.req.format>> = WireTag(propLast.t)
        /\ propStore.type = propLast.req.type
        /\ propStore.format = propLast.req.format
        /\ Len(propStore.data) * 8 = Len(propLast.req.data) * propLast.req.format
        /\ IsStringType(propLast.t) =>
             /\ TerminatedConcat(propLast.values, propLast.req.data)
             /\ propStore.data = propLast.req.data

\* two strings are written, the second one empty
C12_Witness ==
    /\ propLast.op = "set"
    /\ propLast.t = "Utf8String"
    /\ propLast.values = <<<<98, 99>>, <<>>>>
    /\ propLast.req.data = <<98, 99, 0, 0>>
    /\ propStore.data = <<98, 99, 0, 0>>

\* the maximal runs of non-zero bytes of a buffer, as <<first, last>>
Runs(bytes) ==
    {r \in (1..Len(bytes)) \X (1..Len(bytes)) :
        /\ r[1] <= r[2]
        /\ \A i \in r[1]..r[2] : bytes[i] # 0
        /\ (r[1] = 1 \/ bytes[r[1] - 1] = 0)
        /\ (r[2] = Len(bytes) \/ bytes[r[2] + 1] = 0)}

\* the k-th run from the left
RunAt(bytes, k) ==
    CHOOSE r \in Runs(bytes) :
        Cardinality({q \in Runs(bytes) : q[1] <= r[1]}) = k

\* the non-empty segments between 0 bytes, in order
Segments(bytes) ==
    [k \in 1..Cardinality(Runs(bytes)) |->
        SubSeq(bytes, RunAt(bytes, k)[1], RunAt(bytes, k)[2])]

Decoded == propLast.op = "decode"

\* C13: decoding a string property splits the bytes on 0 and discards the
\* empty segments: an Ok result has no empty string and is the non-empty
\* segments in order, whatever 0 bytes lead, trail or repeat; a UTF-8 read
\* with a non-empty segment that is not valid UTF-8 fails with
\* PropertyEncodingError and returns no element, every other read is Ok
C13_StringDecodeSegments ==
    Decoded =>
        LET segs == Segments(propLast.bytes)
            invalid == /\ propLast.t = "Utf8String"
                       /\ \E k \in 1..Len(segs) : ~is_utf8(segs[k])
        IN /\ propLast.res.ok =>
                /\ propLast.res.val = segs
                /\ \A k \in 1..Len(propLast.res.val) : propLast.res.val[k] # <<>>
           /\ invalid => propLast.res = [ok |-> FALSE, err |-> "PropertyEncodingError"]
           /\ ~invalid => propLast.res.ok

\* a buffer that starts with 0 and ends with two 0 bytes decodes to one string
C13_Witness ==
    /\ Decoded
    /\ propLast.t = "Utf8String"
    /\ propLast.bytes = <<0, 97, 0, 0>>
    /\ propLast.res = [ok |-> TRUE, val |-> <<<<97>>>>]

----------------------------------------------------------------------------
(* Properties of the drain and of the delivery order *)

\* the native event is of a class the backend's translation has an entry for
IsMappedClass(b, nat) ==
    IF b = "winit"
    THEN /\ nat.class = "WindowEvent"
         /\ nat.kind \in {"CloseRequested", "Resized", "MouseInput", "CursorMoved"}
    ELSE ClearSentBit(nat.response_type) \in
            {BUTTON_PRESS, BUTTON_RELEASE, EXPOSE, DESTROY_NOTIFY, CLIENT_MESSAGE}

\* an XCB client message that is not WM_DELETE_WINDOW
IsOtherClientMessage(b, nat) ==
    /\ b = "xcb"
    /\ ClearSentBit(nat.response_type) = CLIENT_MESSAGE
    /\ nat.data32_0 # WmDeleteWindowAtom

\* the backend's button table has an entry for the native button: Left,
\* Right and Middle in the winit backend; the match of the XCB backend on
\* the detail code has a single arm for every code
HasButtonEntry(b, nat) ==
    IF b = "winit" THEN nat.button \in MouseButtons ELSE TRUE

\* the native events translation drops: an unmapped class, an unmapped
\* button, a client message that is not WM_DELETE_WINDOW
IsDropKind(b, nat) ==
    \/ ~IsMappedClass(b, nat)
    \/ IsNativeButton(b, nat) /\ ~HasButtonEntry(b, nat)
    \/ IsOtherClientMessage(b, nat)

\* the log entries of the last get_window_events call
LastCall == (Len(drained) - lastDrain.consumed + 1)..Len(drained)

IsNativeMove(nat) == nat.class = "WindowEvent" /\ nat.kind = "CursorMoved"

\* where the last native cursor move among the first n entries of a
\* window's log went, (0, 0) when there is none
LastMovePos(log, n) ==
    LET moves == {j \in 1..n : IsNativeMove(log[j].nat)} IN
    IF moves = {} THEN <<0, 0>>
    ELSE to_physical(log[Max(moves)].nat.position, DpiFactor)

\* C15: the cursor cache of a winit window is (0, 0) when create_window
\* returns and afterwards the pos of the last MouseMove translated for that
\* window, whatever clicks, other events and dropped events came after it,
\* in whatever get_window_events call, and whatever happened on the other
\* window; a click takes the cache as it is, so a click before any move on
\* its window has pos (0, 0)
C15_CursorCachePerWindow ==
    \A w \in Windows : window[w].state = "open" =>
        /\ cursor[w] = LastMovePos(drained[w], Len(drained[w]))
        /\ \A i \in 1..Len(drained[w]) :
             /\ drained[w][i].out.type = "MouseClick" =>
                  drained[w][i].out.pos = LastMovePos(drained[w], i - 1)
             /\ IsNativeMove(drained[w][i].nat) =>
                  drained[w][i].out =
                     [type |-> "MouseMove", pos |-> LastMovePos(drained[w], i)]

\* window 1 has translated a move and then a resize; window 2
\* has translated a click and no move: its click and its cache are (0, 0)
C15_Witness ==
    /\ window[1].state = "open" /\ window[2].state = "open"
    /\ Len(drained[1]) = 2
    /\ drained[1][1].out.type = "MouseMove"
    /\ drained[1][2].out.type = "ResizeHappened"
    /\ native[1] = <<>>
    /\ cursor[1] = drained[1][1].out.pos
    /\ cursor[1] # <<0, 0>>
    /\ Len(drained[2]) = 1
    /\ drained[2][1].out.type = "MouseClick"
    /\ drained[2][1].out.pos = <<0, 0>>
    /\ cursor[2] = <<0, 0>>

\* C16: in the XCB backend every native BUTTON_PRESS is queued as a
\* MouseClick with state Pressed and every native BUTTON_RELEASE as a
\* MouseClick with state Released, and the button is Left whatever the
\* native detail code is
C16_XcbButtonAlwaysLeft ==
    backend = "xcb" =>
        \A i \in Drained :
            LET code == ClearSentBit(drained[i].nat.response_type)
                out == drained[i].out
            IN code \in {BUTTON_PRESS, BUTTON_RELEASE} =>
                 /\ out.type = "MouseClick"
                 /\ out.state = (IF code = BUTTON_PRESS THEN "Pressed" ELSE "Released")
                 /\ out.button = "Left"
                 /\ \/ out \in {evt_buf[k] : k \in 1..Len(evt_buf)}
                    \/ out \in {delivered[k].evt : k \in Delivered}

\* a release of button 3 (the right button) was delivered as a Left release
C16_Witness ==
    /\ backend = "xcb"
    /\ Len(drained) = 1
    /\ drained[1].nat.response_type = BUTTON_RELEASE
    /\ drained[1].nat.detail = 3
    /\ Len(delivered) = 1
    /\ delivered[1].evt.type = "MouseClick"
    /\ delivered[1].evt.state = "Released"
    /\ delivered[1].evt.button = "Left"

\* the events translation gave for the native events drained so far, in the
\* order of the native events
RECURSIVE Translated(_)
Translated(log) ==
    IF log = <<>> THEN <<>>
    ELSE IF Head(log).out = NoEvent THEN Translated(Tail(log))
    ELSE <<Head(log).out>> \o Translated(Tail(log))

\* the events the callback has been invoked with, in order
CallbackEvents == [k \in Delivered |-> delivered[k].evt]

\* C17: the callback is invoked once for each event get_window_events
\* queued, in the order of the native events they were translated from:
\* the events delivered so far followed by the events still queued are the
\* translated events in native order, and when poll_events has returned the
\* queue is empty, so nothing is carried over to or repeated in a later cycle
C17_DeliveredOnceInOrder ==
    /\ CallbackEvents \o evt_buf = Translated(drained)
    /\ (pc = "idle" => evt_buf = <<>>)

\* a cycle delivered two different events in native order and returned, a
\* later cycle delivered a third one
C17_Witness ==
    /\ pc = "idle"
    /\ evt_buf = <<>>
    /\ Len(delivered) = 3
    /\ delivered[1].evt # delivered[2].evt
    /\ lastDrain.n = 1
    /\ lastDrain.queued = 1
    /\ drained[1].out = delivered[1].evt
    /\ drained[2].out = delivered[2].evt
    /\ drained[3].out = delivered[3].evt

====
